---- MODULE Spec2Model ----
(***************************************************************************)
(* A model of the code cells of ImageClassification-Copy1.ipynb: the      *)
(* Keras MNIST example.  The kernel runs the statements of the code cells *)
(* one after the other in document order; a statement that raises stops   *)
(* the run.  Arrays are modelled the way numpy stores them: a shape over a *)
(* flat C-ordered buffer.  Of the buffer the model keeps the set of values *)
(* that occur in it (vals) and the elements at its first and last flat     *)
(* index (data).                                                           *)
(***************************************************************************)
EXTENDS Integers, Sequences, FiniteSets, TLC

VARIABLES
    world,          \* what the run finds outside the notebook: keras, the MNIST file, the seed
    pc,             \* the statement the kernel executes next, or "done"
    err,            \* the unhandled exception that stopped the run, or NoError
    imported,       \* the names bound by the import statements
    train_images, train_labels, test_images, test_labels,
    network,
    test_loss, test_acc,
    outputs,        \* what the cells displayed or printed, in order
    completed,      \* the statements that ran to completion, in order
    cell_entry,     \* the data variables as they were when the current cell started
    lifecycle,      \* per data array, what happened to it so far: load, transform, consume
    history,        \* the epochs the fit call has run so far, with their batches
    layer_input,    \* the exponentials exp(z_i - max z) the softmax layer is given for one image
    layer_output    \* the scores the softmax layer returns for them

dataVars == <<train_images, train_labels, test_images, test_labels,
              network, test_loss, test_acc>>
vars == <<world, pc, err, imported, train_images, train_labels, test_images,
          test_labels, network, test_loss, test_acc, outputs, completed, cell_entry,
          lifecycle, history, layer_input, layer_output>>

----------------------------------------------------------------------------
(* Program constants *)

TrainCount == 60000
TestCount == 10000
ImgSide == 28
HiddenUnits == 512
NumClasses == 10
Epochs == 5
BatchSize == 128
ScaleDivisor == 255
MaxPixel == 255
MaxDigit == 9

(* Bounds of the model *)

MaxDelta == 1       \* loaded counts and widths deviate by at most this much
MaxLabel == 10      \* the largest label value a loaded label array may hold
MaxSeed == 1        \* the seeds of the framework's random generator
MaxExp == 2         \* the largest exponential, in units of the smallest, the softmax layer is given

----------------------------------------------------------------------------
(* Values *)

Unbound == [unbound |-> TRUE]
NoError == [raised |-> FALSE]

Min(S) == CHOOSE x \in S : \A y \in S : x <= y
Max(S) == CHOOSE x \in S : \A y \in S : x >= y

RECURSIVE Size(_)
Size(shape) == IF shape = <<>> THEN 1 ELSE Head(shape) * Size(Tail(shape))

LastIndex(shape) == Size(shape) - 1

(* numpy's indexing of a C-ordered buffer: the row (first axis index) that *)
(* holds the element at flat index k *)
RowOf(k, shape) == k \div Size(Tail(shape))

----------------------------------------------------------------------------
(* float32 arithmetic.  A float32 is m * 2^(-e) with a 24-bit mantissa     *)
(* 2^23 <= m < 2^24, or zero (m = 0, e = 0).                               *)

MantLow == 8388608          \* 2^23
MantHigh == 16777216        \* 2^24

F32Zero == [m |-> 0, e |-> 0]
F32One == [m |-> MantLow, e |-> 23]

(* binary long division of q + r/d until the quotient has 24 bits *)
RECURSIVE F32Normalize(_, _, _, _)
F32Normalize(q, r, d, e) ==
    IF q >= MantLow THEN [q |-> q, r |-> r, e |-> e]
    ELSE F32Normalize(2 * q + (IF 2 * r >= d THEN 1 ELSE 0), (2 * r) % d, d, e + 1)

(* round to nearest, ties to even *)
F32Round(n, d) ==
    LET up == 2 * n.r > d \/ (2 * n.r = d /\ n.q % 2 = 1)
        q == IF up THEN n.q + 1 ELSE n.q
    IN  IF q = MantHigh THEN [m |-> MantLow, e |-> n.e - 1] ELSE [m |-> q, e |-> n.e]

(* the float32 quotient of the integers p >= 0 and d > 0, p < 2^24 *)
F32Div(p, d) ==
    IF p = 0 THEN F32Zero
    ELSE F32Round(F32Normalize(p \div d, p % d, d, 0), d)

F32Leq1(f) == f.m = 0 \/ f.e > 23 \/ (f.e = 23 /\ f.m <= MantLow)
F32Geq0(f) == f.m >= 0

RECURSIVE Pow2(_)
Pow2(k) == IF k = 0 THEN 1 ELSE 2 * Pow2(k - 1)

(* the number of low bits an integer mantissa q >= 2^23 has beyond 24 bits *)
RECURSIVE ExcessBits(_)
ExcessBits(q) == IF q < MantHigh THEN 0 ELSE 1 + ExcessBits(q \div 2)

(* the float32 product of the integer k >= 1 (exact in float32) and f *)
F32Mul(k, f) ==
    IF f.m = 0 THEN F32Zero
    ELSE LET q == k * f.m
             d == Pow2(ExcessBits(q))
         IN  F32Round([q |-> q \div d, r |-> q % d, e |-> f.e - ExcessBits(q)], d)

----------------------------------------------------------------------------
(* numpy arrays *)

Array(shape, dtype, vals, first, last) ==
    [shape |-> shape, dtype |-> dtype, vals |-> vals,
     data |-> [k \in {0, LastIndex(shape)} |-> IF k = 0 THEN first ELSE last]]

(* a faulty variant: reshape compares the row counts only *)
CanReshapeByRows(a, newshape) == a.shape[1] = newshape[1]

(* ndarray.reshape: the same buffer under another shape, a ValueError when *)
(* the element counts differ                                               *)
CanReshape(a, newshape) == Size(a.shape) = Size(newshape)

(* a faulty variant: reshape to (784, count) *)
ReshapeSwappingAxes(a, newshape) == [a EXCEPT !.shape = <<newshape[2], newshape[1]>>]

(* a faulty variant: reshape leaves the shape as it is *)
ReshapeKeepingShape(a, newshape) == a

Reshape(a, newshape) == [a EXCEPT !.shape = newshape]

(* a faulty variant: the division is by d - 1 *)
AsFloat32DivOffByOne(a, d) ==
    [shape |-> a.shape, dtype |-> "float32",
     vals |-> {F32Div(v, d - 1) : v \in a.vals},
     data |-> [k \in DOMAIN a.data |-> F32Div(a.data[k], d - 1)]]

(* a.astype('float32') / d: every element converted exactly, then divided  *)
(* in float32                                                              *)
AsFloat32Div(a, d) ==
    [shape |-> a.shape, dtype |-> "float32",
     vals |-> {F32Div(v, d) : v \in a.vals},
     data |-> [k \in DOMAIN a.data |-> F32Div(a.data[k], d)]]

(* a faulty variant: the 1 goes to the column before *)
OneHotOffByOne(l, width) == [j \in 1..width |-> IF j = l THEN 1 ELSE 0]

(* keras.utils.to_categorical(y) with no num_classes: the width is the     *)
(* largest label plus one; row i holds 1 at column y[i] (column l is       *)
(* position l + 1 of the row)                                              *)
OneHot(l, width) == [j \in 1..width |-> IF j = l + 1 THEN 1 ELSE 0]

InferredClasses(y) == Max(y.vals) + 1

ToCategorical(y) ==
    LET n == Size(y.shape)
        width == InferredClasses(y)
    IN  [shape |-> <<n, width>>, dtype |-> "float64",
         vals |-> IF width = 1 THEN {1} ELSE {0, 1},
         data |-> [i \in DOMAIN y.data |-> OneHot(y.data[i], width)]]

----------------------------------------------------------------------------
(* What mnist.load_data() may return.  MnistData is the dataset the cells' *)
(* recorded outputs show; the other datasets differ from it in one array.  *)

ImageShapes(count) ==
    {<<count + d, ImgSide, ImgSide>> : d \in (0 - MaxDelta)..MaxDelta}
    \cup {<<count, ImgSide, ImgSide + d>> : d \in (0 - MaxDelta)..MaxDelta}
    \cup {<<count \div 2, 2 * ImgSide, ImgSide>>}

PixelSets == {0..MaxPixel, {0}, {MaxPixel}, {0, MaxPixel}, 1..(MaxPixel - 1)}

(* the tracked first and last element take the extreme values of the array *)
ArraysOver(shape, vs) ==
    {Array(shape, "uint8", vs, f, l) : f \in {Min(vs), Max(vs)}, l \in {Min(vs), Max(vs)}}

ImageArrays(count) ==
    UNION {ArraysOver(sh, ps) : sh \in ImageShapes(count), ps \in PixelSets}

LabelSets == {lo..hi : lo \in 0..MaxLabel, hi \in 0..MaxLabel} \ {{}}

LabelArrays(count) ==
    UNION {ArraysOver(<<count>>, ls) : ls \in LabelSets}
    \cup UNION {ArraysOver(<<count + d>>, 0..MaxDigit) : d \in (0 - MaxDelta)..MaxDelta}

MnistData ==
    [train_images |-> Array(<<TrainCount, ImgSide, ImgSide>>, "uint8", 0..MaxPixel, 0, 0),
     train_labels |-> Array(<<TrainCount>>, "uint8", 0..MaxDigit, 5, 8),
     test_images  |-> Array(<<TestCount, ImgSide, ImgSide>>, "uint8", 0..MaxPixel, 0, 0),
     test_labels  |-> Array(<<TestCount>>, "uint8", 0..MaxDigit, 7, 6)]

Datasets ==
    {[MnistData EXCEPT !.train_images = a] : a \in ImageArrays(TrainCount)}
    \cup {[MnistData EXCEPT !.test_images = a] : a \in ImageArrays(TestCount)}
    \cup {[MnistData EXCEPT !.train_labels = a] : a \in LabelArrays(TrainCount)}
    \cup {[MnistData EXCEPT !.test_labels = a] : a \in LabelArrays(TestCount)}
    \cup {MnistData}

(* keras importable or not, the dataset file loadable or not *)
Worlds ==
    [keras : {TRUE}, load_ok : {TRUE}, mnist : Datasets, seed : 0..MaxSeed]
    \cup [keras : {FALSE}, load_ok : {TRUE}, mnist : {MnistData}, seed : {0}]
    \cup [keras : {TRUE}, load_ok : {FALSE}, mnist : {MnistData}, seed : {0}]

----------------------------------------------------------------------------
(* The statements of the code cells, in document order *)

Program ==
    << "import_mnist", "load_data",
       "show_train_shape", "show_train_len", "show_train_labels",
       "show_test_shape", "show_test_len", "show_test_labels",
       "import_models", "import_layers", "new_sequential", "add_dense_relu", "add_dense_softmax",
       "compile",
       "reshape_train", "scale_train", "reshape_test", "scale_test",
       "import_to_categorical", "encode_train", "encode_test",
       "fit", "evaluate", "print" >>

(* the execution_count of the cell that holds the statement at position i *)
CellAt(i) ==
    CASE i <= 2 -> 2
      [] i <= 8 -> i
      [] i <= 13 -> 9
      [] i = 14 -> 10
      [] i <= 18 -> 11
      [] i <= 21 -> 12
      [] OTHER -> i - 9

IndexOf(stmt) == CHOOSE i \in 1..Len(Program) : Program[i] = stmt

CellOf(stmt) == IF stmt = "done" THEN 0 ELSE CellAt(IndexOf(stmt))

(* a faulty variant: the reshape and scale cell is skipped *)
SuccSkippingCell(stmt) ==
    IF IndexOf(stmt) = Len(Program) THEN "done"
    ELSE IF stmt = "compile" THEN "import_to_categorical"
    ELSE Program[IndexOf(stmt) + 1]

(* the kernel goes on with the statement that follows in the document *)
Succ(stmt) ==
    IF IndexOf(stmt) = Len(Program) THEN "done" ELSE Program[IndexOf(stmt) + 1]

----------------------------------------------------------------------------
(* The network *)

Dense(units, activation, input_dim, seed) ==
    [units |-> units, activation |-> activation, input_dim |-> input_dim, init_seed |-> seed]

NotCompiled == [compiled |-> FALSE]

Sequential == [layers |-> <<>>, compile_args |-> NotCompiled, fits |-> <<>>]

AddLayer(net, layer) == [net EXCEPT !.layers = Append(@, layer)]

(* a layer added without input_shape takes the width of the layer before it *)
OutputWidth(net) == net.layers[Len(net.layers)].units

InputWidth(net) == net.layers[1].input_dim

(* the checks fit and evaluate make on their arrays before any batch runs: *)
(* the model is compiled, x is (n, input width), y is (n, output width)    *)
Accepts(net, x, y) ==
    /\ net.compile_args # NotCompiled
    /\ Len(x.shape) = 2 /\ x.shape[2] = InputWidth(net)
    /\ Len(y.shape) = 2 /\ y.shape[2] = OutputWidth(net)
    /\ x.shape[1] = y.shape[1]

(* a faulty variant: fit is handed the test arrays *)
FittedOnTestData(net, x, y, epochs, batch_size, seed) ==
    [net EXCEPT !.fits = Append(@, [x |-> test_images, y |-> test_labels, epochs |-> epochs,
                                     batch_size |-> batch_size, shuffle_seed |-> seed])]

(* a faulty variant: the samples after the last full batch are left out *)
MakeBatchesDroppingRemainder(size, batch_size) ==
    [i \in 1..(size \div batch_size) |-> <<(i - 1) * batch_size, i * batch_size>>]

(* the batches of one epoch over size samples: the index ranges            *)
(* [start, end) of batch_size samples each, the last one up to size        *)
MakeBatches(size, batch_size) ==
    [i \in 1..((size + batch_size - 1) \div batch_size) |->
        <<(i - 1) * batch_size, IF i * batch_size < size THEN i * batch_size ELSE size>>]

(* the network after fit(x, y, epochs, batch_size): a function of the      *)
(* network before, of the two arrays and of the random seed                *)
Fitted(net, x, y, epochs, batch_size, seed) ==
    [net EXCEPT !.fits = Append(@, [x |-> x, y |-> y, epochs |-> epochs,
                                     batch_size |-> batch_size, shuffle_seed |-> seed])]

(* evaluate(x, y) returns [loss, accuracy] of the network on the arrays *)
Evaluated(net, x, y) ==
    [loss |-> [metric |-> net.compile_args.loss, of |-> net, x |-> x, y |-> y],
     acc  |-> [metric |-> "accuracy", of |-> net, x |-> x, y |-> y]]

RECURSIVE SumUpTo(_, _)
SumUpTo(e, n) == IF n = 0 THEN 0 ELSE e[n] + SumUpTo(e, n - 1)

(* a faulty variant: the last class is left out of the sum *)
NormalizerWithoutLastClass(e) == SumUpTo(e, Len(e) - 1)

(* what softmax divides the exponentials by: their sum over all classes *)
Normalizer(e) == SumUpTo(e, Len(e))

(* the two ways a backend normalises: it divides by the sum, or it         *)
(* multiplies by the float32 reciprocal of the sum                         *)
SoftmaxKernels == {"divide", "reciprocal"}

(* softmax over the exponentials e of one image, in float32: one score per *)
(* class, e[i] over the sum                                                *)
Softmax(e, kernel) ==
    [i \in 1..Len(e) |->
        IF kernel = "divide" THEN F32Div(e[i], Normalizer(e))
        ELSE F32Mul(e[i], F32Div(1, Normalizer(e)))]

(* the exponentials of the 10 pre-activations of the last layer *)
ExpVectors == [1..NumClasses -> 1..MaxExp]

----------------------------------------------------------------------------
(* The kernel *)

Entities == {"train_images", "train_labels", "test_images", "test_labels"}

ValueOf(v) ==
    CASE v = "train_images" -> train_images
      [] v = "train_labels" -> train_labels
      [] v = "test_images" -> test_images
      [] v = "test_labels" -> test_labels

(* a faulty variant: fit is handed the test arrays as well *)
PassedWithValidationData(stmt) ==
    CASE stmt = "fit" -> {"train_images", "train_labels", "test_images", "test_labels"}
      [] stmt = "evaluate" -> {"test_images", "test_labels"}
      [] OTHER -> {}

(* the arrays a statement hands to a call that consumes them *)
Passed(stmt) ==
    CASE stmt = "fit" -> {"train_images", "train_labels"}
      [] stmt = "evaluate" -> {"test_images", "test_labels"}
      [] OTHER -> {}

(* what the completed statement did to the array v: bound it for the first *)
(* time, rebound it to a new value, passed it on                           *)
EventsOf(stmt, v, before, after) ==
    (IF after = before THEN <<>>
     ELSE IF before = Unbound THEN <<"load">> ELSE <<"transform">>)
    \o (IF v \in Passed(stmt) THEN <<"consume">> ELSE <<>>)

Running(stmt) == pc = stmt /\ err = NoError

(* the statement completed: go on with the next one *)
Advance(stmt) ==
    /\ pc' = Succ(stmt)
    /\ completed' = Append(completed, stmt)
    /\ cell_entry' = IF CellOf(Succ(stmt)) # CellOf(stmt) THEN dataVars' ELSE cell_entry
    /\ lifecycle' = [v \in Entities |->
                        lifecycle[v] \o EventsOf(stmt, v, ValueOf(v), ValueOf(v)')]
    /\ UNCHANGED <<err, world, history, layer_input, layer_output>>

(* a faulty variant: the exception is swallowed and the run goes on *)
RaiseAndGoOn(stmt, type) ==
    /\ err' = [raised |-> TRUE, type |-> type, at |-> stmt]
    /\ pc' = Succ(stmt)
    /\ UNCHANGED <<world, imported, train_images, train_labels, test_images,
                   test_labels, network, test_loss, test_acc, outputs, completed,
                   cell_entry, lifecycle, history, layer_input, layer_output>>

(* the statement raised: nothing catches it, the run stops at the          *)
(* statement, and nothing it would have assigned is bound                  *)
Raise(stmt, type) ==
    /\ err' = [raised |-> TRUE, type |-> type, at |-> stmt]
    /\ UNCHANGED <<world, pc, imported, train_images, train_labels, test_images,
                   test_labels, network, test_loss, test_acc, outputs, completed,
                   cell_entry, lifecycle, history, layer_input, layer_output>>

Import(stmt, name) ==
    /\ Running(stmt)
    /\ IF world.keras
         THEN /\ imported' = imported \cup {name}
              /\ UNCHANGED <<train_images, train_labels, test_images, test_labels,
                             network, test_loss, test_acc, outputs>>
              /\ Advance(stmt)
         ELSE Raise(stmt, "ModuleNotFoundError")

Show(stmt, value) ==
    /\ Running(stmt)
    /\ outputs' = Append(outputs, [cell |-> CellOf(stmt), value |-> value])
    /\ UNCHANGED <<imported, train_images, train_labels, test_images, test_labels,
                   network, test_loss, test_acc>>
    /\ Advance(stmt)

(* a fresh kernel: nothing is bound, nothing has run *)
FreshKernel ==
    /\ pc = Program[1]
    /\ err = NoError
    /\ imported = {}
    /\ train_images = Unbound /\ train_labels = Unbound
    /\ test_images = Unbound /\ test_labels = Unbound
    /\ network = Unbound
    /\ test_loss = Unbound /\ test_acc = Unbound
    /\ outputs = <<>>
    /\ completed = <<>>
    /\ cell_entry = <<Unbound, Unbound, Unbound, Unbound, Unbound, Unbound, Unbound>>
    /\ lifecycle = [v \in Entities |-> <<>>]
    /\ history = <<>>
    /\ layer_output = <<>>

Init ==
    /\ world \in Worlds
    /\ FreshKernel
    /\ layer_input = <<>>

(* cell 2 *)
import_mnist == Import("import_mnist", "mnist")

load_data ==
    /\ Running("load_data")
    /\ IF world.load_ok
         THEN /\ train_images' = world.mnist.train_images
              /\ train_labels' = world.mnist.train_labels
              /\ test_images' = world.mnist.test_images
              /\ test_labels' = world.mnist.test_labels
              /\ UNCHANGED <<imported, network, test_loss, test_acc, outputs>>
              /\ Advance("load_data")
         ELSE Raise("load_data", "Exception")

(* cells 3 to 8 *)
show_train_shape == Show("show_train_shape", train_images.shape)
show_train_len == Show("show_train_len", train_labels.shape[1])
show_train_labels == Show("show_train_labels", train_labels.data)
show_test_shape == Show("show_test_shape", test_images.shape)
show_test_len == Show("show_test_len", test_labels.shape[1])
show_test_labels == Show("show_test_labels", test_labels.data)

(* cell 9 *)
import_models == Import("import_models", "models")
import_layers == Import("import_layers", "layers")

new_sequential ==
    /\ Running("new_sequential")
    /\ network' = Sequential
    /\ UNCHANGED <<imported, train_images, train_labels, test_images, test_labels,
                   test_loss, test_acc, outputs>>
    /\ Advance("new_sequential")

add_dense_relu ==
    /\ Running("add_dense_relu")
    /\ network' = AddLayer(network, Dense(HiddenUnits, "relu", ImgSide * ImgSide, world.seed))
    /\ UNCHANGED <<imported, train_images, train_labels, test_images, test_labels,
                   test_loss, test_acc, outputs>>
    /\ Advance("add_dense_relu")

add_dense_softmax ==
    /\ Running("add_dense_softmax")
    /\ network' = AddLayer(network, Dense(NumClasses, "softmax", OutputWidth(network), world.seed))
    /\ UNCHANGED <<imported, train_images, train_labels, test_images, test_labels,
                   test_loss, test_acc, outputs>>
    /\ Advance("add_dense_softmax")

(* cell 10 *)
compile ==
    /\ Running("compile")
    /\ network' = [network EXCEPT !.compile_args =
                      [optimizer |-> "rmsprop", loss |-> "categorical_crossentropy",
                       metrics |-> <<"accuracy">>]]
    /\ UNCHANGED <<imported, train_images, train_labels, test_images, test_labels,
                   test_loss, test_acc, outputs>>
    /\ Advance("compile")

(* cell 11 *)
reshape_train ==
    /\ Running("reshape_train")
    /\ IF CanReshape(train_images, <<TrainCount, ImgSide * ImgSide>>)
         THEN /\ train_images' = Reshape(train_images, <<TrainCount, ImgSide * ImgSide>>)
              /\ UNCHANGED <<imported, train_labels, test_images, test_labels,
                             network, test_loss, test_acc, outputs>>
              /\ Advance("reshape_train")
         ELSE Raise("reshape_train", "ValueError")

scale_train ==
    /\ Running("scale_train")
    /\ train_images' = AsFloat32Div(train_images, ScaleDivisor)
    /\ UNCHANGED <<imported, train_labels, test_images, test_labels,
                   network, test_loss, test_acc, outputs>>
    /\ Advance("scale_train")

reshape_test ==
    /\ Running("reshape_test")
    /\ IF CanReshape(test_images, <<TestCount, ImgSide * ImgSide>>)
         THEN /\ test_images' = Reshape(test_images, <<TestCount, ImgSide * ImgSide>>)
              /\ UNCHANGED <<imported, train_images, train_labels, test_labels,
                             network, test_loss, test_acc, outputs>>
              /\ Advance("reshape_test")
         ELSE Raise("reshape_test", "ValueError")

scale_test ==
    /\ Running("scale_test")
    /\ test_images' = AsFloat32Div(test_images, ScaleDivisor)
    /\ UNCHANGED <<imported, train_images, train_labels, test_labels,
                   network, test_loss, test_acc, outputs>>
    /\ Advance("scale_test")

(* cell 12 *)
import_to_categorical == Import("import_to_categorical", "to_categorical")

encode_train ==
    /\ Running("encode_train")
    /\ train_labels' = ToCategorical(train_labels)
    /\ UNCHANGED <<imported, train_images, test_images, test_labels,
                   network, test_loss, test_acc, outputs>>
    /\ Advance("encode_train")

encode_test ==
    /\ Running("encode_test")
    /\ test_labels' = ToCategorical(test_labels)
    /\ UNCHANGED <<imported, train_images, train_labels, test_images,
                   network, test_loss, test_acc, outputs>>
    /\ Advance("encode_test")

(* cell 13: fit runs the epochs one after the other, then returns *)
fit_epoch ==
    /\ Running("fit")
    /\ Accepts(network, train_images, train_labels)
    /\ Len(history) < Epochs
    /\ history' = Append(history, [epoch |-> Len(history) + 1,
                                    batches |-> MakeBatches(train_images.shape[1], BatchSize)])
    /\ UNCHANGED <<world, pc, err, imported, train_images, train_labels, test_images,
                   test_labels, network, test_loss, test_acc, outputs, completed,
                   cell_entry, lifecycle, layer_input, layer_output>>

fit ==
    /\ Running("fit")
    /\ IF Accepts(network, train_images, train_labels)
         THEN /\ Len(history) = Epochs
              /\ network' = Fitted(network, train_images, train_labels, Epochs, BatchSize,
                                   world.seed)
              /\ outputs' = Append(outputs, [cell |-> CellOf("fit"),
                                             value |-> [history |-> Epochs]])
              /\ UNCHANGED <<imported, train_images, train_labels, test_images,
                             test_labels, test_loss, test_acc>>
              /\ Advance("fit")
         ELSE Raise("fit", "ValueError")

(* cell 14 *)
evaluate ==
    /\ Running("evaluate")
    /\ IF Accepts(network, test_images, test_labels)
         THEN /\ test_loss' = Evaluated(network, test_images, test_labels).loss
              /\ test_acc' = Evaluated(network, test_images, test_labels).acc
              /\ UNCHANGED <<imported, train_images, train_labels, test_images,
                             test_labels, network, outputs>>
              /\ Advance("evaluate")
         ELSE Raise("evaluate", "ValueError")

(* cell 15 *)
print == Show("print", <<"test_acc:", test_acc>>)

Next ==
    \/ import_mnist \/ load_data
    \/ show_train_shape \/ show_train_len \/ show_train_labels
    \/ show_test_shape \/ show_test_len \/ show_test_labels
    \/ import_models \/ import_layers
    \/ new_sequential \/ add_dense_relu \/ add_dense_softmax
    \/ compile
    \/ reshape_train \/ scale_train \/ reshape_test \/ scale_test
    \/ import_to_categorical \/ encode_train \/ encode_test
    \/ fit_epoch \/ fit \/ evaluate \/ print

Spec == Init /\ [][Next]_vars

(* The last layer on its own: the softmax activation of                    *)
(* layers.Dense(10, activation='softmax') applied to one image's           *)
(* exponentials                                                            *)
softmax_forward ==
    /\ layer_input # <<>>
    /\ layer_output = <<>>
    /\ \E kernel \in SoftmaxKernels : layer_output' = Softmax(layer_input, kernel)
    /\ UNCHANGED <<world, pc, err, imported, train_images, train_labels, test_images,
                   test_labels, network, test_loss, test_acc, outputs, completed,
                   cell_entry, lifecycle, history, layer_input>>

LayerInit ==
    /\ world = [keras |-> TRUE, load_ok |-> TRUE, mnist |-> MnistData, seed |-> 0]
    /\ FreshKernel
    /\ layer_input \in ExpVectors

LayerNext == softmax_forward

LayerSpec == LayerInit /\ [][LayerNext]_vars

----------------------------------------------------------------------------
(* Properties *)

Done(stmt) == \E i \in 1..Len(completed) : completed[i] = stmt

Started(stmt) == pc = stmt \/ Done(stmt)

Failed(stmt) == err # NoError /\ err.at = stmt

Loaded == world.mnist

BuildSteps == {"new_sequential", "add_dense_relu", "add_dense_softmax", "compile"}
PrepSteps == {"reshape_train", "scale_train", "reshape_test", "scale_test",
              "encode_train", "encode_test"}

(* C1: the statements run one at a time in document order: what has        *)
(* completed is always a prefix of the program and the kernel is at the    *)
(* statement after that prefix; fit starts only after build, compile and   *)
(* the preprocessing have completed, evaluate only after fit, print only   *)
(* after evaluate.                                                         *)
C1_DocumentOrder ==
    /\ Len(completed) <= Len(Program)
    /\ completed = SubSeq(Program, 1, Len(completed))
    /\ pc = IF Len(completed) = Len(Program) THEN "done" ELSE Program[Len(completed) + 1]
    /\ Started("fit") => \A s \in BuildSteps \cup PrepSteps : Done(s)
    /\ Started("evaluate") => Done("fit")
    /\ Started("print") => Done("evaluate")

C1_Witness == pc = "done" /\ err = NoError /\ Done("print")

InUnitInterval(f) == F32Geq0(f) /\ F32Leq1(f)

ScaledRight(loaded, scaled) ==
    /\ \A v \in scaled.vals : InUnitInterval(v)
    /\ \A k \in DOMAIN scaled.data :
          /\ InUnitInterval(scaled.data[k])
          /\ loaded.data[k] = 0 => scaled.data[k] = F32Zero
          /\ loaded.data[k] = MaxPixel => scaled.data[k] = F32One
          /\ loaded.data[k] \in 1..(MaxPixel - 1) =>
                scaled.data[k] \notin {F32Zero, F32One}

(* C2: once an image array is scaled, every value in it lies in [0, 1];    *)
(* the pixel 0 has become 0 and the pixel 255 has become 1.                *)
C2_ScaledIntoUnitInterval ==
    /\ Done("scale_train") => ScaledRight(Loaded.train_images, train_images)
    /\ Done("scale_test") => ScaledRight(Loaded.test_images, test_images)

C2_Witness ==
    /\ Done("scale_test")
    /\ Loaded.train_images.vals = 0..MaxPixel
    /\ Cardinality(train_images.vals) = MaxPixel + 1
    /\ train_images.data[0] = F32Zero
    /\ train_images.data[LastIndex(train_images.shape)] = F32One

ValuesAreDigits(y) == y.vals \subseteq 0..MaxDigit

(* row i of the encoded array is the indicator vector of label y[i], of    *)
(* the given length                                                        *)
IndicatorRows(y, encoded, length) ==
    /\ encoded.shape = <<Size(y.shape), length>>
    /\ DOMAIN encoded.data = DOMAIN y.data
    /\ \A i \in DOMAIN y.data :
          /\ Len(encoded.data[i]) = length
          /\ \A l \in 0..(length - 1) :
                encoded.data[i][l + 1] = IF l = y.data[i] THEN 1 ELSE 0

(* C3 as stated: every label array with values in 0..9 is encoded into     *)
(* indicator vectors of length exactly 10.                                 *)
C3_AlwaysLengthTen ==
    /\ (Done("encode_train") /\ ValuesAreDigits(Loaded.train_labels)) =>
          IndicatorRows(Loaded.train_labels, train_labels, NumClasses)
    /\ (Done("encode_test") /\ ValuesAreDigits(Loaded.test_labels)) =>
          IndicatorRows(Loaded.test_labels, test_labels, NumClasses)

EncodedRight(y, encoded) ==
    ValuesAreDigits(y) =>
        /\ IndicatorRows(y, encoded, Max(y.vals) + 1)
        /\ encoded.shape[2] <= NumClasses
        /\ encoded.shape[2] = NumClasses <=> MaxDigit \in y.vals

(* C3, amended: every label array with values in 0..9 is encoded into      *)
(* indicator vectors whose length is the largest label of the array plus   *)
(* one, with 1 at index l and 0 elsewhere; the length is 10 exactly when   *)
(* the label 9 occurs in the array.                                        *)
C3_LengthFromLargestLabel ==
    /\ Done("encode_train") => EncodedRight(Loaded.train_labels, train_labels)
    /\ Done("encode_test") => EncodedRight(Loaded.test_labels, test_labels)

C3_Witness ==
    /\ Done("encode_test")
    /\ ValuesAreDigits(Loaded.train_labels)
    /\ MaxDigit \notin Loaded.train_labels.vals
    /\ train_labels.shape[2] < NumClasses
    /\ test_labels.shape[2] = NumClasses

TwoDenseLayers ==
    /\ Len(network.layers) = 2
    /\ network.layers[1].units = HiddenUnits /\ network.layers[1].activation = "relu"
    /\ network.layers[1].input_dim = ImgSide * ImgSide
    /\ network.layers[2].units = NumClasses /\ network.layers[2].activation = "softmax"
    /\ network.layers[2].input_dim = HiddenUnits

(* images (n, 784) and labels (n, 10) for one and the same n *)
ShapesExpected(x, y) ==
    /\ Len(x.shape) = 2 /\ x.shape[2] = ImgSide * ImgSide
    /\ Len(y.shape) = 2 /\ y.shape[2] = NumClasses
    /\ x.shape[1] = y.shape[1]

ShapesProduced(count, y, images, labels) ==
    /\ images.shape = <<count, ImgSide * ImgSide>>
    /\ labels.shape = <<Size(y.shape), Max(y.vals) + 1>>
    /\ ShapesExpected(images, labels) <=> (Size(y.shape) = count /\ Max(y.vals) = MaxDigit)

IsPrefix(a, b) == Len(a) <= Len(b) /\ a = SubSeq(b, 1, Len(a))

LoadedTransformedTwiceConsumed == <<"load", "transform", "transform", "consume">>
LoadedTransformedOnceConsumed == <<"load", "transform", "consume">>

(* C5 as stated: in a run of the notebook each of the four arrays is       *)
(* loaded once, then transformed exactly twice, then consumed once.        *)
C5_AllTransformedTwice ==
    pc = "done" => \A v \in Entities : lifecycle[v] = LoadedTransformedTwiceConsumed

LifecycleOf(v) ==
    IF v \in {"train_images", "test_images"}
        THEN LoadedTransformedTwiceConsumed
        ELSE LoadedTransformedOnceConsumed

(* C5, amended: in a run of the notebook each image array is loaded once,  *)
(* transformed exactly twice (reshape, scale) and consumed once, and each  *)
(* label array is loaded once, transformed exactly once (to_categorical)   *)
(* and consumed once, in that order; a run that stops early has gone       *)
(* through a prefix of that lifecycle.                                     *)
C5_ImagesTwiceLabelsOnce ==
    /\ \A v \in Entities : IsPrefix(lifecycle[v], LifecycleOf(v))
    /\ pc = "done" => \A v \in Entities : lifecycle[v] = LifecycleOf(v)

C5_Witness ==
    /\ pc = "done"
    /\ lifecycle["train_images"] = LoadedTransformedTwiceConsumed
    /\ lifecycle["test_labels"] = LoadedTransformedOnceConsumed

(* what the notebook's steps make of the loaded training arrays *)
PreparedImages(a, count) == AsFloat32Div(Reshape(a, <<count, ImgSide * ImgSide>>), ScaleDivisor)

(* the network after fit as a function of the loaded training arrays and   *)
(* the seed alone                                                          *)
NetworkTrainedOn(images, labels, seed) ==
    [layers |-> << Dense(HiddenUnits, "relu", ImgSide * ImgSide, seed),
                   Dense(NumClasses, "softmax", HiddenUnits, seed) >>,
     compile_args |-> [optimizer |-> "rmsprop", loss |-> "categorical_crossentropy",
                       metrics |-> <<"accuracy">>],
     fits |-> << [x |-> PreparedImages(images, TrainCount), y |-> ToCategorical(labels),
                  epochs |-> Epochs, batch_size |-> BatchSize, shuffle_seed |-> seed] >>]

NoTestDataIn(net) ==
    \A i \in 1..Len(net.fits) :
        /\ net.fits[i].x \notin {test_images, Loaded.test_images}
        /\ net.fits[i].y \notin {test_labels, Loaded.test_labels}

(* C6: fit receives the training arrays only and evaluate the test arrays  *)
(* only; the network after fit is determined by the loaded training arrays *)
(* and the seed, so it is the same in any two runs that differ only in the *)
(* test arrays, and it holds no test array before evaluate.                *)
C6_NoTestDataInTraining ==
    /\ Done("fit") =>
          /\ network = NetworkTrainedOn(Loaded.train_images, Loaded.train_labels, world.seed)
          /\ network.fits[1].x = train_images /\ network.fits[1].y = train_labels
    /\ network # Unbound => NoTestDataIn(network)
    /\ Done("evaluate") =>
          /\ test_acc.x = test_images /\ test_acc.y = test_labels
          /\ test_loss.x = test_images /\ test_loss.y = test_labels
          /\ test_acc.of = network /\ test_loss.of = network

C6_Witness ==
    /\ Done("evaluate")
    /\ Loaded.test_images # MnistData.test_images
    /\ Loaded.train_images = MnistData.train_images
    /\ Loaded.train_labels = MnistData.train_labels
    /\ network = NetworkTrainedOn(MnistData.train_images, MnistData.train_labels, world.seed)

(* C7 as stated: a step that fails leaves the variables it assigns as they *)
(* were when the step started: no partial result is stored.                *)
C7_NoPartialResult == err # NoError => dataVars = cell_entry

RaisingStep == err = NoError /\ err' # NoError

(* C7, amended: nothing catches or retries a failure: the statement that   *)
(* raises binds and changes nothing, and after it the run changes nothing  *)
(* more; what the earlier statements of the failing cell assigned stays    *)
(* assigned.                                                               *)
C7_UnhandledAndStatementAtomic ==
    [][/\ RaisingStep => UNCHANGED <<world, pc, imported, dataVars, outputs, completed,
                                      cell_entry, lifecycle>>
       /\ err # NoError => UNCHANGED vars]_vars

C7_Witness ==
    /\ Failed("reshape_test")
    /\ train_images # cell_entry[1]
    /\ train_images = PreparedImages(Loaded.train_images, TrainCount)
    /\ test_images = Loaded.test_images

CountsAsRecorded ==
    /\ Loaded.train_images.shape[1] = TrainCount /\ Size(Loaded.train_labels.shape) = TrainCount
    /\ Loaded.test_images.shape[1] = TestCount /\ Size(Loaded.test_labels.shape) = TestCount

(* row i of the images is still image i and row i of the labels still      *)
(* label i of what was loaded                                              *)
RowsCorrespond(li, ll, images, labels, count) ==
    /\ images.shape[1] = count /\ labels.shape[1] = count
    /\ DOMAIN images.data = DOMAIN li.data
    /\ \A k \in DOMAIN li.data :
          /\ RowOf(k, images.shape) = RowOf(k, li.shape)
          /\ images.data[k] = IF images.dtype = li.dtype THEN li.data[k]
                               ELSE F32Div(li.data[k], ScaleDivisor)
    /\ DOMAIN labels.data = DOMAIN ll.data
    /\ \A i \in DOMAIN ll.data :
          labels.data[i] = IF labels.dtype = ll.dtype THEN ll.data[i]
                           ELSE OneHot(ll.data[i], labels.shape[2])

(* C8: when 60000 training images and labels and 10000 test images and     *)
(* labels are loaded, then after the load and after every preprocessing    *)
(* statement the row counts are still 60000 and 10000 and row i of each    *)
(* image array still goes with row i of its label array.                   *)
C8_RowsStayPaired ==
    (Done("load_data") /\ CountsAsRecorded) =>
        /\ RowsCorrespond(Loaded.train_images, Loaded.train_labels,
                          train_images, train_labels, TrainCount)
        /\ RowsCorrespond(Loaded.test_images, Loaded.test_labels,
                          test_images, test_labels, TestCount)
        /\ Done("show_test_len") =>
              /\ outputs[1].value[1] = TrainCount /\ outputs[2].value = TrainCount
              /\ outputs[4].value[1] = TestCount /\ outputs[5].value = TestCount

C8_Witness ==
    /\ Done("encode_test")
    /\ CountsAsRecorded
    /\ train_images.shape = <<TrainCount, ImgSide * ImgSide>>
    /\ train_labels.shape[1] = TrainCount
    /\ test_labels.shape[1] = TestCount

(* C10: the reshape of the training images completes exactly when 60000 *  *)
(* 784 elements were loaded and that of the test images exactly when       *)
(* 10000 * 784 were; otherwise the statement raises, the image variable    *)
(* keeps the value it had, and fit is never started.                       *)
C10_ReshapeNeedsHardCodedSize ==
    /\ Done("reshape_train") =>
          Size(Loaded.train_images.shape) = TrainCount * (ImgSide * ImgSide)
    /\ Done("reshape_test") =>
          Size(Loaded.test_images.shape) = TestCount * (ImgSide * ImgSide)
    /\ Failed("reshape_train") =>
          /\ Size(Loaded.train_images.shape) # TrainCount * (ImgSide * ImgSide)
          /\ train_images = Loaded.train_images
          /\ ~Started("fit")
    /\ Failed("reshape_test") =>
          /\ Size(Loaded.test_images.shape) # TestCount * (ImgSide * ImgSide)
          /\ test_images = Loaded.test_images
          /\ ~Started("fit")
    /\ Started("fit") =>
          /\ Size(Loaded.train_images.shape) = TrainCount * (ImgSide * ImgSide)
          /\ Size(Loaded.test_images.shape) = TestCount * (ImgSide * ImgSide)

C10_Witness ==
    /\ Failed("reshape_train")
    /\ Loaded.train_images.shape = <<TrainCount, ImgSide, ImgSide - 1>>
    /\ train_images = Loaded.train_images

BatchSizeOf(b) == b[2] - b[1]

(* the batches are consecutive index ranges that start at 0 and end at n:  *)
(* every sample of 0..n-1 lies in exactly one of them                      *)
CoversOnce(batches, n) ==
    /\ Len(batches) >= 1
    /\ batches[1][1] = 0
    /\ batches[Len(batches)][2] = n
    /\ \A i \in 1..(Len(batches) - 1) : batches[i][2] = batches[i + 1][1]
    /\ \A i \in 1..Len(batches) : BatchSizeOf(batches[i]) \in 1..BatchSize

(* C11: fit runs exactly 5 epochs, one after the other, and returns; in    *)
(* each epoch every one of the 60000 training samples is in exactly one    *)
(* batch, the batches hold at most 128 samples, and there are 468 full     *)
(* batches and one last batch of 96.                                       *)
C11_FiveEpochsOfBatches ==
    /\ Len(history) <= Epochs
    /\ history # <<>> => Started("fit")
    /\ Done("fit") => Len(history) = Epochs
    /\ (Running("fit") /\ Accepts(network, train_images, train_labels)) =>
          (Len(history) < Epochs \/ ENABLED fit)
    /\ \A k \in 1..Len(history) :
          /\ history[k].epoch = k
          /\ CoversOnce(history[k].batches, TrainCount)
          /\ Len(history[k].batches) = 469
          /\ \A i \in 1..468 : BatchSizeOf(history[k].batches[i]) = BatchSize
          /\ BatchSizeOf(history[k].batches[469]) = 96

C11_Witness ==
    /\ Done("fit")
    /\ Len(history) = Epochs
    /\ Len(history[Epochs].batches) = 469
    /\ history[Epochs].batches[469] = <<59904, TrainCount>>

LargestExponent(scores) == Max({scores[i].e : i \in 1..Len(scores)})

(* the exact sum of the scores, in units of 2^(-E) *)
RECURSIVE ScaledSumUpTo(_, _, _)
ScaledSumUpTo(scores, E, n) ==
    IF n = 0 THEN 0
    ELSE scores[n].m * Pow2(E - scores[n].e) + ScaledSumUpTo(scores, E, n - 1)

ScaledSum(scores) == ScaledSumUpTo(scores, LargestExponent(scores), Len(scores))

ScaledOne(scores) == Pow2(LargestExponent(scores))

Distance(a, b) == IF a >= b THEN a - b ELSE b - a

(* a < b for positive normalised float32 values *)
F32Less(a, b) == a.e > b.e \/ (a.e = b.e /\ a.m < b.m)

TenScoresInUnitInterval(scores) ==
    /\ Len(scores) = NumClasses
    /\ \A i \in 1..Len(scores) : InUnitInterval(scores[i])

====
